---- MODULE Spec2Model ----
(***************************************************************************)
(* Model of src/components/sections/hero/PhysiotherapyHero.tsx.            *)
(*                                                                         *)
(* A JavaScript object is a function whose DOMAIN is the set of keys that  *)
(* are set; reading a key that is not set gives undefined.  Strings are    *)
(* strings, "" is the empty (falsy) string.  The module-level objects      *)
(* heroContent and sizeClasses are mutable objects bound by const, so they *)
(* are state; the const primitive size cannot change and is a definition.  *)
(***************************************************************************)
EXTENDS Naturals, Sequences, FiniteSets

VARIABLES
    businessInfo,   \* the imported business-info object (line 5)
    heroContent,    \* the module-level defaults object (lines 15-26)
    sizeClasses,    \* the module-level lookup table (lines 32-36)
    todo,           \* calls of PhysiotherapyHero still to be made, in order
    renders         \* the calls made so far: arguments, resolved values, output

vars == <<businessInfo, heroContent, sizeClasses, todo, renders>>

-----------------------------------------------------------------------------
(* Bounds *)

\* longest sequence of successive calls of the component in one run
MaxCalls == 2

-----------------------------------------------------------------------------
(* JavaScript operators used by the component *)

\* o.k is neither undefined nor null
Defined(o, k) == k \in DOMAIN o

\* a string is truthy unless it is empty
Truthy(s) == s # ""

\* bug: || written for ??, so an empty override falls back to the default
NullishCoalesceAsOr(o, k, d) == IF Defined(o, k) /\ o[k] # "" THEN o[k] ELSE d

\* (o.k ?? d): o.k unless it is undefined
NullishCoalesce(o, k, d) == IF Defined(o, k) THEN o[k] ELSE d

\* (o.k || d): o.k unless it is undefined or falsy
LogicalOr(o, k, d) == IF Defined(o, k) /\ Truthy(o[k]) THEN o[k] ELSE d

\* the arguments of cn(...) that are set, in order
ClassArgs(base, o, k) == IF Defined(o, k) THEN <<base, o[k]>> ELSE <<base>>

-----------------------------------------------------------------------------
(* Configuration *)

size == "large"

\* bug: ?? written for || on line 20, so an empty booking URL is kept
HeroContentKeepsEmptyUrl(info) ==
    [ title            |-> "Move Better, Feel Better, Live Better",
      description      |-> "Expert physiotherapy care tailored to your recovery and performance goals. Our evidence-based treatments help you return to the activities you love.",
      ctaText          |-> "Book Your Assessment",
      ctaUrl           |-> IF Defined(info, "bookingUrl") THEN info.bookingUrl ELSE "/contact",
      secondaryCtaText |-> "Learn More",
      secondaryCtaUrl  |-> "/about",
      heroImage        |-> "https://images.unsplash.com/photo-1576091160399-112ba8d25d1d?q=80&w=2070",
      heroImageAlt     |-> "Physiotherapist helping patient with rehabilitation exercises",
      logoImage        |-> "/uploads/Pro-Active-Therapy.gif" ]

HeroContent(info) ==
    [ title            |-> "Move Better, Feel Better, Live Better",
      description      |-> "Expert physiotherapy care tailored to your recovery and performance goals. Our evidence-based treatments help you return to the activities you love.",
      ctaText          |-> "Book Your Assessment",
      ctaUrl           |-> LogicalOr(info, "bookingUrl", "/contact"),
      secondaryCtaText |-> "Learn More",
      secondaryCtaUrl  |-> "/about",
      heroImage        |-> "https://images.unsplash.com/photo-1576091160399-112ba8d25d1d?q=80&w=2070",
      heroImageAlt     |-> "Physiotherapist helping patient with rehabilitation exercises",
      logoImage        |-> "/uploads/Pro-Active-Therapy.gif" ]

\* bug: a misspelt key leaves "small" without an entry
SizeClassesTypo ==
    [ large  |-> "min-h-[600px] md:min-h-[700px] lg:min-h-[800px]",
      medium |-> "min-h-[500px] md:min-h-[600px]",
      smal   |-> "min-h-[400px] md:min-h-[500px]" ]

SizeClasses ==
    [ large  |-> "min-h-[600px] md:min-h-[700px] lg:min-h-[800px]",
      medium |-> "min-h-[500px] md:min-h-[600px]",
      small  |-> "min-h-[400px] md:min-h-[500px]" ]

-----------------------------------------------------------------------------
(* The component *)

\* the fields of PhysiotherapyHeroProps that replace a default
PropFields ==
    { "title", "description", "heroImage", "heroImageAlt", "ctaText", "ctaUrl",
      "secondaryCtaText", "secondaryCtaUrl", "size" }

\* the default parameter: props = {} when the argument is omitted
PropsOf(args) == IF args = <<>> THEN <<>> ELSE args[1]

\* bug: the description falls back from the title override (cross-field leak)
ResolveLeaky(props, content) ==
    [ title            |-> NullishCoalesce(props, "title", content.title),
      description      |-> NullishCoalesce(props, "description",
                               NullishCoalesce(props, "title", content.description)),
      heroImage        |-> NullishCoalesce(props, "heroImage", content.heroImage),
      heroImageAlt     |-> NullishCoalesce(props, "heroImageAlt", content.heroImageAlt),
      ctaText          |-> NullishCoalesce(props, "ctaText", content.ctaText),
      ctaUrl           |-> NullishCoalesce(props, "ctaUrl", content.ctaUrl),
      secondaryCtaText |-> NullishCoalesce(props, "secondaryCtaText", content.secondaryCtaText),
      secondaryCtaUrl  |-> NullishCoalesce(props, "secondaryCtaUrl", content.secondaryCtaUrl),
      size             |-> NullishCoalesce(props, "size", size) ]

\* bug: the primary CTA pair is resolved with || instead of ??
ResolveCtaWithOr(props, content) ==
    [ title            |-> NullishCoalesce(props, "title", content.title),
      description      |-> NullishCoalesce(props, "description", content.description),
      heroImage        |-> NullishCoalesce(props, "heroImage", content.heroImage),
      heroImageAlt     |-> NullishCoalesce(props, "heroImageAlt", content.heroImageAlt),
      ctaText          |-> LogicalOr(props, "ctaText", content.ctaText),
      ctaUrl           |-> LogicalOr(props, "ctaUrl", content.ctaUrl),
      secondaryCtaText |-> NullishCoalesce(props, "secondaryCtaText", content.secondaryCtaText),
      secondaryCtaUrl  |-> NullishCoalesce(props, "secondaryCtaUrl", content.secondaryCtaUrl),
      size             |-> NullishCoalesce(props, "size", size) ]

\* lines 91-99: the display* constants
Resolve(props, content) ==
    [ title            |-> NullishCoalesce(props, "title", content.title),
      description      |-> NullishCoalesce(props, "description", content.description),
      heroImage        |-> NullishCoalesce(props, "heroImage", content.heroImage),
      heroImageAlt     |-> NullishCoalesce(props, "heroImageAlt", content.heroImageAlt),
      ctaText          |-> NullishCoalesce(props, "ctaText", content.ctaText),
      ctaUrl           |-> NullishCoalesce(props, "ctaUrl", content.ctaUrl),
      secondaryCtaText |-> NullishCoalesce(props, "secondaryCtaText", content.secondaryCtaText),
      secondaryCtaUrl  |-> NullishCoalesce(props, "secondaryCtaUrl", content.secondaryCtaUrl),
      size             |-> NullishCoalesce(props, "size", size) ]

\* bug: the primary link is labelled with its URL
PrimaryCtaLabelledByUrl(d) ==
    IF Truthy(d.ctaText) /\ Truthy(d.ctaUrl)
    THEN << [link |-> "primary", href |-> d.ctaUrl, label |-> d.ctaUrl] >>
    ELSE << >>

\* line 132: {displayCtaText && displayCtaUrl && (<Link .../>)}
PrimaryCta(d) ==
    IF Truthy(d.ctaText) /\ Truthy(d.ctaUrl)
    THEN << [link |-> "primary", href |-> d.ctaUrl, label |-> d.ctaText] >>
    ELSE << >>

\* bug: the secondary guard tests the primary text (copy and paste)
SecondaryCtaGuardedByPrimary(d) ==
    IF Truthy(d.ctaText) /\ Truthy(d.secondaryCtaUrl)
    THEN << [link |-> "secondary", href |-> d.secondaryCtaUrl, label |-> d.secondaryCtaText] >>
    ELSE << >>

\* line 156: {displaySecondaryCtaText && displaySecondaryCtaUrl && (<Link .../>)}
SecondaryCta(d) ==
    IF Truthy(d.secondaryCtaText) /\ Truthy(d.secondaryCtaUrl)
    THEN << [link |-> "secondary", href |-> d.secondaryCtaUrl, label |-> d.secondaryCtaText] >>
    ELSE << >>

\* line 104: sizeClasses[displaySize]; a key with no entry reads as undefined,
\* which cn(...) drops
HeightClass(table, displaySize) ==
    IF displaySize \in DOMAIN table THEN <<table[displaySize]>> ELSE << >>

\* variant: the logo is taken from a logoImage prop when one is passed
MarkupLogoFromProps(props, d, content, table) ==
    [ element     |-> "section",
      className   |-> ClassArgs("relative overflow-hidden bg-background", props, "className"),
      heightClass |-> HeightClass(table, d.size),
      logo        |-> [src |-> NullishCoalesce(props, "logoImage", content.logoImage),
                       alt |-> "Pro-Active Therapy Logo"],
      h1          |-> d.title,
      p           |-> d.description,
      links       |-> PrimaryCta(d) \o SecondaryCta(d),
      image       |-> [src |-> d.heroImage, alt |-> d.heroImageAlt] ]

\* lines 101-182: the returned element tree
Markup(props, d, content, table) ==
    [ element     |-> "section",
      className   |-> ClassArgs("relative overflow-hidden bg-background", props, "className"),
      heightClass |-> HeightClass(table, d.size),
      logo        |-> [src |-> content.logoImage, alt |-> "Pro-Active Therapy Logo"],
      h1          |-> d.title,
      p           |-> d.description,
      links       |-> PrimaryCta(d) \o SecondaryCta(d),
      image       |-> [src |-> d.heroImage, alt |-> d.heroImageAlt] ]

\* bug: the title is dereferenced without a fallback, so a call without one throws
PhysiotherapyHeroThrows(args, content, table) ==
    LET props == PropsOf(args)
        d     == Resolve(props, content)
    IN  [ args    |-> args,
          display |-> d,
          out     |-> IF Defined(props, "title")
                      THEN Markup(props, d, content, table)
                      ELSE [element |-> "TypeError"] ]

\* one call of the component: what it was given, what it resolved, what it returned
PhysiotherapyHero(args, content, table) ==
    LET props == PropsOf(args)
        d     == Resolve(props, content)
    IN  [ args    |-> args,
          display |-> d,
          out     |-> Markup(props, d, content, table) ]

-----------------------------------------------------------------------------
(* Inputs *)

\* generator mark for a key that is left out of an object
Unset == "<unset>"

Pick(choice) == [k \in {f \in DOMAIN choice : choice[f] # Unset} |-> choice[k]]

BusinessInfos ==
    { Pick(c) : c \in [bookingUrl : {Unset, "", "https://book.example/pro-active"}] }

PropsSpace ==
    { Pick(c) : c \in
        [ title            : {Unset, "", "Sports Injury Recovery"},
          description      : {Unset, "", "Get back in the game."},
          heroImage        : {Unset, "", "/uploads/sports.jpg"},
          heroImageAlt     : {Unset, "", "Athlete stretching"},
          ctaText          : {Unset, "", "Book Now"},
          ctaUrl           : {Unset, "", "/book"},
          secondaryCtaText : {Unset, "", "Our Team"},
          secondaryCtaUrl  : {Unset, "", "/team"},
          size             : {Unset, "large", "medium", "small"},
          className        : {Unset, "mt-8"},
          logoImage        : {Unset, "/uploads/other-logo.png"} ] }

\* an argument list: no argument, or one props object
ArgLists == { << >> } \cup { <<p>> : p \in PropsSpace }

\* the props objects used when several calls follow each other: at most one key set
FewKeys == { p \in PropsSpace : Cardinality(DOMAIN p) <= 1 }

SeqArgLists == { << >> } \cup { <<p>> : p \in FewKeys }

CallSequences ==
    UNION { [1..n -> SeqArgLists] : n \in 2..MaxCalls }

Workloads == { <<a>> : a \in ArgLists } \cup CallSequences

-----------------------------------------------------------------------------
(* Behaviour *)

\* module load: the imports are bound and the module-level constants evaluated
Init ==
    /\ businessInfo \in BusinessInfos
    /\ heroContent = HeroContent(businessInfo)
    /\ sizeClasses = SizeClasses
    /\ todo \in Workloads
    /\ renders = << >>

\* bug: the overrides are merged into the shared defaults object
\* (Object.assign(heroContent, props)) before the values are read
RenderSharingDefaults ==
    /\ todo # << >>
    /\ LET props  == PropsOf(Head(todo))
           merged == [k \in DOMAIN heroContent |->
                        NullishCoalesce(props, k, heroContent[k])]
       IN  /\ heroContent' = merged
           /\ renders' = Append(renders, PhysiotherapyHero(Head(todo), merged, sizeClasses))
    /\ todo' = Tail(todo)
    /\ UNCHANGED <<businessInfo, sizeClasses>>

\* one call of PhysiotherapyHero with the next argument list
Render ==
    /\ todo # << >>
    /\ renders' = Append(renders, PhysiotherapyHero(Head(todo), heroContent, sizeClasses))
    /\ todo' = Tail(todo)
    /\ UNCHANGED <<businessInfo, heroContent, sizeClasses>>

Next == Render

Spec == Init /\ [][Next]_vars

-----------------------------------------------------------------------------
(* Properties *)

\* the calls made so far
Calls == { renders[i] : i \in 1..Len(renders) }

\* the configured default behind a resolved field
DefaultOf(f) == IF f = "size" THEN size ELSE heroContent[f]

\* the links of an output that carry the given name
LinksNamed(out, name) == { i \in 1..Len(out.links) : out.links[i].link = name }

HasLink(out, name) == LinksNamed(out, name) # {}

\* the props fields that hold text (size is an enumeration)
TextFields == PropFields \ {"size"}

\* C1 as stated: each resolved field equals the override when it is provided
\* and non-empty, and the default otherwise (an empty override falls back).
C1_EmptyOverrideFallsBack ==
    \A r \in Calls : \A f \in PropFields :
        LET props == PropsOf(r.args)
        IN  r.display[f] = IF Defined(props, f) /\ props[f] # ""
                           THEN props[f]
                           ELSE DefaultOf(f)

\* C1 amended: each resolved field equals the override whenever the override
\* is provided, the empty string included, and the default only when the
\* override is absent.
C1_OverrideWinsWhenProvided ==
    \A r \in Calls : \A f \in PropFields :
        LET props == PropsOf(r.args)
        IN  r.display[f] = IF Defined(props, f) THEN props[f] ELSE DefaultOf(f)

\* a call with an empty override, a non-empty override and an absent one
C1_Witness ==
    \E r \in Calls :
        LET props == PropsOf(r.args)
        IN  /\ Defined(props, "title") /\ props.title = "" /\ r.display.title = ""
            /\ Defined(props, "description") /\ props.description # ""
            /\ r.display.description = props.description
            /\ ~Defined(props, "ctaText") /\ r.display.ctaText = heroContent.ctaText

\* C2: the primary link is in the output iff the resolved ctaText and ctaUrl are
\* both non-empty, the secondary link iff the resolved secondaryCtaText and
\* secondaryCtaUrl are both non-empty, each decided without regard to the other.
C2_CtaPresence ==
    \A r \in Calls :
        /\ HasLink(r.out, "primary")
             <=> (Truthy(r.display.ctaText) /\ Truthy(r.display.ctaUrl))
        /\ HasLink(r.out, "secondary")
             <=> (Truthy(r.display.secondaryCtaText) /\ Truthy(r.display.secondaryCtaUrl))
        /\ Cardinality(LinksNamed(r.out, "primary")) <= 1
        /\ Cardinality(LinksNamed(r.out, "secondary")) <= 1
        /\ Len(r.out.links) = Cardinality(LinksNamed(r.out, "primary"))
                              + Cardinality(LinksNamed(r.out, "secondary"))

\* a call whose output has the secondary link and no primary link
C2_Witness ==
    \E r \in Calls :
        /\ ~HasLink(r.out, "primary")
        /\ HasLink(r.out, "secondary")
        /\ Truthy(r.display.ctaText) /\ ~Truthy(r.display.ctaUrl)

\* C3 as stated: a logoImage passed by the caller replaces the default logo.
C3_LogoOverridable ==
    \A r \in Calls :
        r.out.logo.src = NullishCoalesce(PropsOf(r.args), "logoImage", heroContent.logoImage)

\* C3 amended: every field of the default configuration except logoImage can be
\* overridden; the logo rendered is always the default logo path, whether or
\* not the caller passes a logoImage.
C3_LogoAlwaysDefault ==
    \A r \in Calls :
        /\ r.out.logo.src = heroContent.logoImage
        /\ \A f \in PropFields :
              Defined(PropsOf(r.args), f) => r.display[f] = PropsOf(r.args)[f]
        /\ DOMAIN heroContent \ {"logoImage"} \subseteq PropFields

\* a call that passes a logoImage and still renders the default logo
C3_Witness ==
    \E r \in Calls :
        /\ Defined(PropsOf(r.args), "logoImage")
        /\ PropsOf(r.args).logoImage # heroContent.logoImage
        /\ r.out.logo.src = heroContent.logoImage

\* what the output shows for a resolved field
Shown(out, f) ==
    CASE f = "title"            -> <<out.h1>>
      [] f = "description"      -> <<out.p>>
      [] f = "heroImage"        -> <<out.image.src>>
      [] f = "heroImageAlt"     -> <<out.image.alt>>
      [] f = "ctaText"          -> [i \in 1..Cardinality(LinksNamed(out, "primary")) |->
                                      out.links[CHOOSE j \in LinksNamed(out, "primary") : TRUE].label]
      [] f = "ctaUrl"           -> [i \in 1..Cardinality(LinksNamed(out, "primary")) |->
                                      out.links[CHOOSE j \in LinksNamed(out, "primary") : TRUE].href]
      [] f = "secondaryCtaText" -> [i \in 1..Cardinality(LinksNamed(out, "secondary")) |->
                                      out.links[CHOOSE j \in LinksNamed(out, "secondary") : TRUE].label]
      [] f = "secondaryCtaUrl"  -> [i \in 1..Cardinality(LinksNamed(out, "secondary")) |->
                                      out.links[CHOOSE j \in LinksNamed(out, "secondary") : TRUE].href]
      [] f = "size"             -> out.heightClass

\* the props of the documented example, lines 84-87
ExampleProps == [title |-> "Sports Injury Recovery", size |-> "medium"]

\* C4: every resolved field the caller did not supply equals its default, and
\* props {title: "Sports Injury Recovery", size: "medium"} give that title, the
\* medium height class, the default description and both links with the
\* default labels and URLs.
C4_NoCrossFieldLeak ==
    \A r \in Calls :
        LET props == PropsOf(r.args)
        IN  /\ \A f \in PropFields \ DOMAIN props : r.display[f] = DefaultOf(f)
            /\ (DOMAIN props \cap PropFields = {"title"}) =>
                  \A f \in PropFields \ {"title"} :
                      /\ r.display[f] = DefaultOf(f)
                      /\ f \in TextFields => Shown(r.out, f) = <<heroContent[f]>>
            /\ props = ExampleProps =>
                  /\ r.out.h1 = "Sports Injury Recovery"
                  /\ r.out.heightClass = <<"min-h-[500px] md:min-h-[600px]">>
                  /\ r.out.p = heroContent.description
                  /\ r.out.links =
                       << [link |-> "primary", href |-> heroContent.ctaUrl,
                           label |-> "Book Your Assessment"],
                          [link |-> "secondary", href |-> "/about", label |-> "Learn More"] >>

\* the documented example has been rendered
C4_Witness ==
    \E r \in Calls :
        /\ PropsOf(r.args) = ExampleProps
        /\ r.out.h1 = "Sports Injury Recovery"
        /\ r.display.description = heroContent.description

\* C5: rendered with no overrides (argument omitted, or an empty record), the
\* title, description and both CTA labels shown are the default
\* configuration's, and both links are present.
C5_DefaultsRendered ==
    \A r \in Calls :
        DOMAIN PropsOf(r.args) = {} =>
            /\ r.out.h1 = heroContent.title
            /\ r.out.p = heroContent.description
            /\ Len(r.out.links) = 2
            /\ r.out.links[1].link = "primary"
            /\ r.out.links[1].label = heroContent.ctaText
            /\ r.out.links[2].link = "secondary"
            /\ r.out.links[2].label = heroContent.secondaryCtaText

\* a call with the argument omitted whose output has both links
C5_Witness ==
    \E r \in Calls :
        /\ r.args = << >>
        /\ r.out.h1 = "Move Better, Feel Better, Live Better"
        /\ Len(r.out.links) = 2

\* C6: the resolved size is large, medium or small (the override when given,
\* "large" otherwise) and selects exactly one entry of the three-entry table,
\* distinct sizes select distinct classes, and no lookup misses.
C6_SizeSelectsOneClass ==
    /\ DOMAIN sizeClasses = {"large", "medium", "small"}
    /\ \A a, b \in DOMAIN sizeClasses : sizeClasses[a] = sizeClasses[b] => a = b
    /\ \A r \in Calls :
          /\ r.display.size \in {"large", "medium", "small"}
          /\ r.display.size = IF Defined(PropsOf(r.args), "size")
                              THEN PropsOf(r.args).size ELSE "large"
          /\ Len(r.out.heightClass) = 1
          /\ r.out.heightClass[1] = sizeClasses[r.display.size]

\* a call with size "small" that got the small class
C6_Witness ==
    \E r \in Calls :
        /\ Defined(PropsOf(r.args), "size") /\ PropsOf(r.args).size = "small"
        /\ r.out.heightClass = <<"min-h-[400px] md:min-h-[500px]">>

\* C7: no argument list makes a call fail: a pending call can always be made,
\* every call made returned a section, and each field the caller left out was
\* resolved to its default.
C7_NoErrorOutcome ==
    /\ todo # << >> => ENABLED Render
    /\ \A r \in Calls :
          /\ r.out.element = "section"
          /\ \A f \in PropFields \ DOMAIN PropsOf(r.args) : r.display[f] = DefaultOf(f)

\* a call with only empty overrides, and no title, that returned a section
C7_Witness ==
    \E r \in Calls :
        LET props == PropsOf(r.args)
        IN  /\ ~Defined(props, "title")
            /\ Defined(props, "heroImage") /\ props.heroImage = ""
            /\ Defined(props, "ctaUrl") /\ props.ctaUrl = ""
            /\ r.out.element = "section"

\* C8: a call's result depends on its arguments only: it is the result the
\* call gives right after module load, two calls with the same arguments give
\* the same resolved values and output, and the default configuration is
\* what module load made it.
C8_RenderIsPure ==
    /\ heroContent = HeroContent(businessInfo)
    /\ sizeClasses = SizeClasses
    /\ \A r \in Calls :
          r = PhysiotherapyHero(r.args, HeroContent(businessInfo), SizeClasses)
    /\ \A i, j \in 1..Len(renders) :
          renders[i].args = renders[j].args =>
              /\ renders[i].display = renders[j].display
              /\ renders[i].out = renders[j].out

\* a call without a title made after a call that overrode the title
C8_Witness ==
    /\ Len(renders) >= 2
    /\ Defined(PropsOf(renders[1].args), "title")
    /\ ~Defined(PropsOf(renders[2].args), "title")
    /\ renders[2].out.h1 = "Move Better, Feel Better, Live Better"

\* C9: the default ctaUrl is the booking URL when that is non-empty and
\* "/contact" otherwise, so it is never empty, and a call that overrides
\* neither ctaText nor ctaUrl shows the primary link.
C9_DefaultCtaUrlNeverEmpty ==
    /\ heroContent.ctaUrl =
          IF Defined(businessInfo, "bookingUrl") /\ businessInfo.bookingUrl # ""
          THEN businessInfo.bookingUrl
          ELSE "/contact"
    /\ heroContent.ctaUrl # ""
    /\ \A r \in Calls :
          LET props == PropsOf(r.args)
          IN  (~Defined(props, "ctaText") /\ ~Defined(props, "ctaUrl")) =>
                  /\ HasLink(r.out, "primary")
                  /\ r.out.links[1].href = heroContent.ctaUrl

\* the booking URL is the empty string and the primary link goes to /contact
C9_Witness ==
    /\ Defined(businessInfo, "bookingUrl") /\ businessInfo.bookingUrl = ""
    /\ \E r \in Calls :
          /\ ~Defined(PropsOf(r.args), "ctaText")
          /\ ~Defined(PropsOf(r.args), "ctaUrl")
          /\ HasLink(r.out, "primary")
          /\ r.out.links[1].href = "/contact"

\* C10: an override given as the empty string is the resolved value: an empty
\* ctaText or ctaUrl removes the primary link, an empty secondaryCtaText or
\* secondaryCtaUrl removes the secondary link, an empty title or description
\* is rendered as empty text; only an absent override resolves to the default.
C10_EmptyOverrideKept ==
    \A r \in Calls :
        LET props == PropsOf(r.args)
            Empty(f) == Defined(props, f) /\ props[f] = ""
        IN  /\ \A f \in TextFields : Empty(f) => r.display[f] = ""
            /\ (Empty("ctaText") \/ Empty("ctaUrl")) => ~HasLink(r.out, "primary")
            /\ (Empty("secondaryCtaText") \/ Empty("secondaryCtaUrl"))
                  => ~HasLink(r.out, "secondary")
            /\ Empty("title") => r.out.h1 = ""
            /\ Empty("description") => r.out.p = ""
            /\ \A f \in PropFields : ~Defined(props, f) => r.display[f] = DefaultOf(f)

\* an empty ctaText alone removed the primary link and kept the secondary
C10_Witness ==
    \E r \in Calls :
        LET props == PropsOf(r.args)
        IN  /\ DOMAIN props = {"ctaText"} /\ props.ctaText = ""
            /\ r.display.ctaText = ""
            /\ r.display.ctaUrl = heroContent.ctaUrl
            /\ ~HasLink(r.out, "primary")
            /\ HasLink(r.out, "secondary")

====
